---------------------------- MODULE Spec2Model ----------------------------
(***************************************************************************)
(* A model of largemelon.hpp: the text_loc position model (operator==,     *)
(* operator<, span_loc, mtext_loc), the token-dispatch bridge between a    *)
(* Ragel scanner and a Lemon parser (set_mtext_and_loc_trimmed,            *)
(* skip_token, parse_token_trimmed, parse_null_token) and the AST node     *)
(* base class ast_base_type (constructor, add_child, parent, is_root,      *)
(* root, childs, loc).                                                     *)
(*                                                                         *)
(* A std::string is a sequence of characters.  The characters that matter  *)
(* to the code are the two line-terminator characters and "any other".     *)
(* size_t values are modelled as naturals: no computation of the model     *)
(* comes near 2^64.                                                        *)
(***************************************************************************)
EXTENDS Integers, Sequences, FiniteSets, TLC

(***************************************************************************)
(* Bounds of the model.                                                    *)
(***************************************************************************)
\* largest line number of a text_loc drawn as an input
MaxLno == 2
\* largest column number of a text_loc drawn as an input
MaxCno == 2
\* longest string handed to mtext_loc as an input
MaxLen == 4
\* longest input buffer the scanner runs over
MaxBuf == 3
\* largest number of AST nodes constructed
MaxNodes == 3
\* largest number of add_child calls made on them
MaxAddChild == 3
\* longest string handed to escstr
MaxEsc == 3
\* longest text of a token that is written to a stream
MaxRender == 2
\* largest trim count handed to toktext
MaxTrim == 2

(***************************************************************************)
(* State.                                                                  *)
(*                                                                         *)
(* Calls of the pure functions (operator<, span_loc, mtext_loc):           *)
(*   lhs, rhs, txt  the arguments of the call                              *)
(*   third          the third span of a chain lhs < rhs, rhs < third       *)
(*   op             the function called last                               *)
(*   cmp            the results of lhs < rhs and rhs < lhs                 *)
(*   ret            the value returned by the function                     *)
(*                                                                         *)
(* The scanner loop that drives the bridge:                                *)
(*   buf      the input buffer the scanner runs over                       *)
(*   p        offset in buf at which the next lexeme starts                *)
(*   cur_mtext  the running matched text (std::string& mtext)              *)
(*   cur_loc    the running location (text_loc& loc)                       *)
(*   fpath    path of the file being parsed; empty for a parse from memory *)
(*   heap     the lex_token objects allocated with new, by address 1, 2, ..*)
(*   steps    the invocations of parse_func made so far, in order          *)
(*   call     the bridge call made last: its arguments and the running     *)
(*            state it was handed                                          *)
(*   aborted  an assert of the bridge has failed: the process is gone      *)
(*   trace    the bridge calls that have returned, in order: the function *)
(*            called and the offset at which its lexeme ended             *)
(*                                                                         *)
(* The AST nodes (objects of classes derived from ast_base_type):          *)
(*   nodes    the addresses of the nodes constructed so far                *)
(*   parent_  the parent_ member of every node                             *)
(*   childs_  the childs_ member of every node                             *)
(*   loc_     the loc_ member of every node                                *)
(*   ast_call the member function called last, its object and argument     *)
(*   root_pc  where a call of root() stands: in its loop, or returned      *)
(*   root_n   the local variable n of root(); its result once returned     *)
(*   added    the number of add_child calls made                           *)
(*   ast_aborted  an assert of ast_base_type has failed                    *)
(*   ast_fault  the program has dereferenced a null pointer: it was killed *)
(*            at the store ("segv"), or the store did not trap and the     *)
(*            function ran on ("ub"); the run is followed no further       *)
(*                                                                         *)
(* Ownership of nodes by nodes of the derived classes:                     *)
(*   owned_   for every node the nodes its std::unique_ptr members hold    *)
(*   released for every node the number of times it has been destroyed and *)
(*            its storage given back                                       *)
(***************************************************************************)
VARIABLES lhs, rhs, third, txt, op, cmp, ret,
          buf, p, cur_mtext, cur_loc, fpath, heap, steps, call, aborted, trace,
          nodes, parent_, childs_, loc_, ast_call, root_pc, root_n, added,
          ast_aborted, ast_fault,
          owned_, released

pureVars == <<lhs, rhs, third, txt, op, cmp, ret>>

bridgeVars == <<buf, p, cur_mtext, cur_loc, fpath, heap, steps, call, aborted, trace>>

astVars == <<nodes, parent_, childs_, loc_, ast_call, root_pc, root_n, added,
             ast_aborted, ast_fault>>

ownVars == <<owned_, released>>

vars == <<lhs, rhs, third, txt, op, cmp, ret,
          buf, p, cur_mtext, cur_loc, fpath, heap, steps, call, aborted, trace,
          nodes, parent_, childs_, loc_, ast_call, root_pc, root_n, added,
          ast_aborted, ast_fault,
          owned_, released>>

(***************************************************************************)
(* Characters and strings.                                                 *)
(***************************************************************************)
CR == "CR"
LF == "LF"
Char == {"a", CR, LF}

RECURSIVE StringsUpTo(_)
StringsUpTo(n) ==
    IF n = 0 THEN {<<>>}
    ELSE LET shorter == StringsUpTo(n - 1)
         IN  shorter \cup {Append(s, c) : s \in {t \in shorter : Len(t) = n - 1}, c \in Char}

(***************************************************************************)
(* struct text_loc and its operators.                                      *)
(***************************************************************************)
text_loc(fl, fc, ll, lc) ==
    [first_lno |-> fl, first_cno |-> fc, last_lno |-> ll, last_cno |-> lc]

TextLocs ==
    [first_lno : 0..MaxLno, first_cno : 0..MaxCno,
     last_lno : 0..MaxLno, last_cno : 0..MaxCno]

FIRST_TEXT_LOC == text_loc(1, 0, 1, 0)

EMPTY_TEXT_LOC == text_loc(0, 0, 0, 0)

\* bool operator==(const text_loc&, const text_loc&)
operator_eq(l, r) ==
    /\ l.first_lno = r.first_lno
    /\ l.first_cno = r.first_cno
    /\ l.last_lno = r.last_lno
    /\ l.last_cno = r.last_cno

\* bool operator!=(const text_loc&, const text_loc&)
operator_ne(l, r) == ~operator_eq(l, r)

\* operator< with the column test made strict
operator_lt_strict(l, r) ==
    \/ l.last_lno < r.first_lno
    \/ (l.last_lno = r.first_lno /\ l.last_cno < r.first_cno)

\* operator< comparing the two starts instead of lhs's end with rhs's start
operator_lt_starts(l, r) ==
    \/ l.first_lno < r.first_lno
    \/ (l.first_lno = r.first_lno /\ l.first_cno <= r.first_cno)

\* operator< holding when lhs starts no later than rhs ends
operator_lt_overlapping(l, r) ==
    \/ l.first_lno < r.last_lno
    \/ (l.first_lno = r.last_lno /\ l.first_cno <= r.last_cno)

\* bool operator<(const text_loc&, const text_loc&)
operator_lt(l, r) ==
    \/ l.last_lno < r.first_lno
    \/ (l.last_lno = r.first_lno /\ l.last_cno <= r.first_cno)

\* span_loc taking the end from the first argument as well
span_loc_first_only(first_loc, last_loc) ==
    text_loc(first_loc.first_lno, first_loc.first_cno,
             first_loc.last_lno, first_loc.last_cno)

\* text_loc span_loc(const text_loc& first_loc, const text_loc& last_loc)
span_loc(first_loc, last_loc) ==
    text_loc(first_loc.first_lno, first_loc.first_cno,
             last_loc.last_lno, last_loc.last_cno)

(***************************************************************************)
(* mtext_loc.                                                              *)
(***************************************************************************)
\* RGX_NL matching only single characters, so that CRLF matches twice
RGX_NL_single(s, i) ==
    IF s[i] \in {CR, LF} THEN 1 ELSE 0

\* Length of the match of RGX_NL = \r\n|\r|\n that starts at s[i]; 0 if none.
RGX_NL(s, i) ==
    IF s[i] = CR /\ i < Len(s) /\ s[i + 1] = LF THEN 2
    ELSE IF s[i] \in {CR, LF} THEN 1
    ELSE 0

\* The std::sregex_iterator loop: counts the matches and keeps in tpos the
\* 0-based offset just past the last one.  i is the 1-based search position.
RECURSIVE nl_scan(_, _, _, _)
nl_scan(s, i, num_newlines, tpos) ==
    IF i > Len(s) THEN [num_newlines |-> num_newlines, tpos |-> tpos]
    ELSE IF RGX_NL(s, i) > 0
         THEN nl_scan(s, i + RGX_NL(s, i), num_newlines + 1, (i - 1) + RGX_NL(s, i))
         ELSE nl_scan(s, i + 1, num_newlines, tpos)

\* the start of the new location put on the previous last column itself
loc_first_no_advance(prev_loc) ==
    [first_lno |-> prev_loc.last_lno, first_cno |-> prev_loc.last_cno]

\* loc.first_lno and loc.first_cno of mtext_loc
loc_first(prev_loc) ==
    [first_lno |-> prev_loc.last_lno, first_cno |-> prev_loc.last_cno + 1]

\* the end of the new location, with the column counted from the new start
\* when there is no newline
loc_last_from_first(prev_loc, first, mtext, sc) ==
    IF sc.num_newlines > 0
    THEN [last_lno |-> first.first_lno + sc.num_newlines,
          last_cno |-> Len(mtext) - sc.tpos]
    ELSE [last_lno |-> first.first_lno,
          last_cno |-> first.first_cno + Len(mtext)]

\* the end of the new location left on the line of its start
loc_last_line_kept(prev_loc, first, mtext, sc) ==
    IF sc.num_newlines > 0
    THEN [last_lno |-> first.first_lno,
          last_cno |-> Len(mtext) - sc.tpos]
    ELSE [last_lno |-> first.first_lno,
          last_cno |-> prev_loc.last_cno + Len(mtext)]

\* loc.last_lno and loc.last_cno of mtext_loc
loc_last(prev_loc, first, mtext, sc) ==
    IF sc.num_newlines > 0
    THEN [last_lno |-> first.first_lno + sc.num_newlines,
          last_cno |-> Len(mtext) - sc.tpos]
    ELSE [last_lno |-> first.first_lno,
          last_cno |-> prev_loc.last_cno + Len(mtext)]

\* text_loc mtext_loc(const text_loc& prev_loc, const std::string& mtext)
mtext_loc(prev_loc, mtext) ==
    LET first == loc_first(prev_loc)
        sc    == nl_scan(mtext, 1, 0, 0)
        last  == loc_last(prev_loc, first, mtext, sc)
    IN  text_loc(first.first_lno, first.first_cno, last.last_lno, last.last_cno)

(***************************************************************************)
(* Pointers into the input buffer: nullptr, or an offset from the start of *)
(* buf.  Adding to a pointer and subtracting two pointers is done on the   *)
(* offsets, as the machine does it.                                        *)
(***************************************************************************)
NullPtr == [null |-> TRUE, off |-> 0]

Ptr(off) == [null |-> FALSE, off |-> off]

PtrAdd(ptr, n) == [null |-> ptr.null, off |-> ptr.off + n]

PtrDiff(te, ts) == te.off - ts.off

\* void *const pparser: the handle of the allocated parser, or nullptr
PPARSER == "pparser"

NULL_PARSER == "nullptr"

\* the address of the ContextType object shared by all parsing steps
CONTEXT == "&context"

\* token kinds of the grammar, as the Lemon-generated header numbers them
TokenIds == {1, 2}

\* trim counts a scanner action passes
Trims == {0, 1}

\* the values of fpath: empty (a parse from memory) or the path of a file
Paths == {"", "in.src"}

\* conversion of the size_t token_id to the int parameter of parse_func:
\* values up to INT_MAX are kept, larger ones wrap around by 2^32
ToInt(n) ==
    IF n <= 2147483647 THEN n ELSE ((n - 2147483647) - 2147483647) - 2

\* the asserts of toktext(ts, te)
toktext_pre(ts, te) ==
    /\ ~ts.null
    /\ ~te.null
    /\ PtrDiff(te, ts) >= 0

\* std::string toktext(const char *ts, const char *te): std::string(ts, te - ts)
toktext(ts, te) == SubSeq(buf, ts.off + 1, ts.off + PtrDiff(te, ts))

\* lex_token(mtext, fpath, loc)
lex_token(m, f, l) == [mtext |-> m, fpath |-> f, loc |-> l]

\* the asserts of set_mtext_and_loc_trimmed
set_mtext_and_loc_trimmed_pre(ts, te, ltrim, rtrim) ==
    /\ ~ts.null
    /\ ~te.null
    /\ PtrDiff(PtrAdd(te, 0 - rtrim), PtrAdd(ts, ltrim)) > 0

\* set_mtext_and_loc_trimmed with the location taken from the trimmed text
set_mtext_and_loc_trimmed_loc_of_trimmed(m, l, f, ts, te, ltrim, rtrim) ==
    [mtext |-> toktext(PtrAdd(ts, ltrim), PtrAdd(te, 0 - rtrim)),
     loc   |-> mtext_loc(l, toktext(PtrAdd(ts, ltrim), PtrAdd(te, 0 - rtrim)))]

\* set_mtext_and_loc_trimmed(mtext, loc, fpath, ts, te, ltrim, rtrim), its
\* asserts passed: the new values of mtext and loc
set_mtext_and_loc_trimmed(m, l, f, ts, te, ltrim, rtrim) ==
    [mtext |-> toktext(PtrAdd(ts, ltrim), PtrAdd(te, 0 - rtrim)),
     loc   |-> mtext_loc(l, toktext(ts, te))]

\* the bridge call made last
Call(name, ts, te, pparser, token_id, ltrim, rtrim) ==
    [op |-> name, ts |-> ts, te |-> te, pparser |-> pparser,
     token_id |-> token_id, ltrim |-> ltrim, rtrim |-> rtrim,
     prev_mtext |-> cur_mtext, prev_loc |-> cur_loc,
     prev_steps |-> Len(steps), prev_heap |-> Len(heap)]

\* the assert on the trimmed length placed after the assignment of mtext
AssertFails_after_mtext(c) ==
    /\ aborted' = TRUE
    /\ call' = c
    /\ cur_mtext' = SubSeq(buf, c.ts.off + c.ltrim + 1, c.te.off - c.rtrim)
    /\ UNCHANGED <<buf, p, cur_loc, fpath, heap, steps>>

\* a failed assert ends the process (the asserts are compiled in: a build
\* without NDEBUG); nothing has been written yet
AssertFails(c) ==
    /\ aborted' = TRUE
    /\ call' = c
    /\ UNCHANGED <<buf, p, cur_mtext, cur_loc, fpath, heap, steps>>

\* one invocation of parse_func(pparser, token_id, token, &context), with
\* the running state as it is when the parser is entered
Step(pparser, token_id, token, context, m, l) ==
    [pparser |-> pparser, token_id |-> token_id, token |-> token,
     context |-> context, mtext |-> m, loc |-> l]

\* skip_token handing the lexeme to the parser as a token without payload
skip_token_invoking(ts, te, ltrim, rtrim) ==
    LET c == Call("skip_token", ts, te, NULL_PARSER, 0, ltrim, rtrim)
    IN  IF ts.null \/ te.null \/ ~set_mtext_and_loc_trimmed_pre(ts, te, 0, 0)
        THEN AssertFails(c)
        ELSE LET upd == set_mtext_and_loc_trimmed(cur_mtext, cur_loc, fpath, ts, te, 0, 0)
             IN  /\ cur_mtext' = upd.mtext
                 /\ cur_loc' = upd.loc
                 /\ steps' = Append(steps, Step(PPARSER, 0, 0, CONTEXT, upd.mtext, upd.loc))
                 /\ p' = te.off
                 /\ call' = c
                 /\ UNCHANGED <<buf, fpath, heap, aborted>>

\* skip_token setting the running mtext only and leaving loc as it was
skip_token_loc_kept(ts, te, ltrim, rtrim) ==
    LET c == Call("skip_token", ts, te, NULL_PARSER, 0, ltrim, rtrim)
    IN  IF ts.null \/ te.null \/ ~set_mtext_and_loc_trimmed_pre(ts, te, 0, 0)
        THEN AssertFails(c)
        ELSE LET upd == set_mtext_and_loc_trimmed(cur_mtext, cur_loc, fpath, ts, te, 0, 0)
             IN  /\ cur_mtext' = upd.mtext
                 /\ p' = te.off
                 /\ call' = c
                 /\ UNCHANGED <<buf, cur_loc, fpath, heap, steps, aborted>>

\* skip_token(mtext, loc, fpath, ts, te, ltrim, rtrim, verbosity)
skip_token(ts, te, ltrim, rtrim) ==
    LET c == Call("skip_token", ts, te, NULL_PARSER, 0, ltrim, rtrim)
    IN  IF ts.null \/ te.null \/ ~set_mtext_and_loc_trimmed_pre(ts, te, 0, 0)
        THEN AssertFails(c)
        ELSE LET upd == set_mtext_and_loc_trimmed(cur_mtext, cur_loc, fpath, ts, te, 0, 0)
             IN  /\ cur_mtext' = upd.mtext
                 /\ cur_loc' = upd.loc
                 /\ p' = te.off
                 /\ call' = c
                 /\ UNCHANGED <<buf, fpath, heap, steps, aborted>>

\* parse_token_trimmed passing the running mtext and loc it was given, not
\* the updated ones, to the new token
parse_token_trimmed_stale_token(ts, te, pparser, token_id, ltrim, rtrim) ==
    LET c == Call("parse_token_trimmed", ts, te, pparser, token_id, ltrim, rtrim)
    IN  IF \/ ts.null \/ te.null \/ pparser = NULL_PARSER
           \/ ~set_mtext_and_loc_trimmed_pre(ts, te, ltrim, rtrim)
        THEN AssertFails(c)
        ELSE LET upd == set_mtext_and_loc_trimmed(cur_mtext, cur_loc, fpath, ts, te, ltrim, rtrim)
                 tok == Len(heap) + 1
             IN  /\ cur_mtext' = upd.mtext
                 /\ cur_loc' = upd.loc
                 /\ heap' = Append(heap, lex_token(cur_mtext, fpath, cur_loc))
                 /\ steps' = Append(steps, Step(pparser, ToInt(token_id), tok, CONTEXT,
                                                upd.mtext, upd.loc))
                 /\ p' = te.off
                 /\ call' = c
                 /\ UNCHANGED <<buf, fpath, aborted>>

\* parse_token_trimmed releasing the token when parse_func has returned
parse_token_trimmed_releasing(ts, te, pparser, token_id, ltrim, rtrim) ==
    LET c == Call("parse_token_trimmed", ts, te, pparser, token_id, ltrim, rtrim)
    IN  IF \/ ts.null \/ te.null \/ pparser = NULL_PARSER
           \/ ~set_mtext_and_loc_trimmed_pre(ts, te, ltrim, rtrim)
        THEN AssertFails(c)
        ELSE LET upd == set_mtext_and_loc_trimmed(cur_mtext, cur_loc, fpath, ts, te, ltrim, rtrim)
                 tok == Len(heap) + 1
             IN  /\ cur_mtext' = upd.mtext
                 /\ cur_loc' = upd.loc
                 /\ heap' = heap
                 /\ steps' = Append(steps, Step(pparser, ToInt(token_id), tok, CONTEXT,
                                                upd.mtext, upd.loc))
                 /\ p' = te.off
                 /\ call' = c
                 /\ UNCHANGED <<buf, fpath, aborted>>

\* parse_token_trimmed<ContextType>(mtext, loc, context, fpath, parse_func,
\*     ts, te, pparser, token_id, ltrim, rtrim, verbosity)
parse_token_trimmed(ts, te, pparser, token_id, ltrim, rtrim) ==
    LET c == Call("parse_token_trimmed", ts, te, pparser, token_id, ltrim, rtrim)
    IN  IF \/ ts.null \/ te.null \/ pparser = NULL_PARSER
           \/ ~set_mtext_and_loc_trimmed_pre(ts, te, ltrim, rtrim)
        THEN AssertFails(c)
        ELSE LET upd == set_mtext_and_loc_trimmed(cur_mtext, cur_loc, fpath, ts, te, ltrim, rtrim)
                 tok == Len(heap) + 1
             IN  /\ cur_mtext' = upd.mtext
                 /\ cur_loc' = upd.loc
                 /\ heap' = Append(heap, lex_token(upd.mtext, fpath, upd.loc))
                 /\ steps' = Append(steps, Step(pparser, ToInt(token_id), tok, CONTEXT,
                                                upd.mtext, upd.loc))
                 /\ p' = te.off
                 /\ call' = c
                 /\ UNCHANGED <<buf, fpath, aborted>>

\* parse_null_token allocating an empty token for the parser
parse_null_token_allocating(ts, te, pparser, token_id) ==
    LET c == Call("parse_null_token", ts, te, pparser, token_id, 0, 0)
    IN  IF \/ ts.null \/ te.null \/ pparser = NULL_PARSER
           \/ ~set_mtext_and_loc_trimmed_pre(ts, te, 0, 0)
        THEN AssertFails(c)
        ELSE LET upd == set_mtext_and_loc_trimmed(cur_mtext, cur_loc, fpath, ts, te, 0, 0)
                 tok == Len(heap) + 1
             IN  /\ cur_mtext' = upd.mtext
                 /\ cur_loc' = upd.loc
                 /\ heap' = Append(heap, lex_token(<<>>, fpath, upd.loc))
                 /\ steps' = Append(steps, Step(pparser, ToInt(token_id), tok, CONTEXT,
                                                upd.mtext, upd.loc))
                 /\ p' = te.off
                 /\ call' = c
                 /\ UNCHANGED <<buf, fpath, aborted>>

\* parse_null_token<ContextType>(mtext, loc, context, fpath, parse_func,
\*     ts, te, pparser, token_id, verbosity)
parse_null_token(ts, te, pparser, token_id) ==
    LET c == Call("parse_null_token", ts, te, pparser, token_id, 0, 0)
    IN  IF \/ ts.null \/ te.null \/ pparser = NULL_PARSER
           \/ ~set_mtext_and_loc_trimmed_pre(ts, te, 0, 0)
        THEN AssertFails(c)
        ELSE LET upd == set_mtext_and_loc_trimmed(cur_mtext, cur_loc, fpath, ts, te, 0, 0)
             IN  /\ cur_mtext' = upd.mtext
                 /\ cur_loc' = upd.loc
                 /\ steps' = Append(steps, Step(pparser, ToInt(token_id), 0, CONTEXT,
                                                upd.mtext, upd.loc))
                 /\ p' = te.off
                 /\ call' = c
                 /\ UNCHANGED <<buf, fpath, heap, aborted>>

(***************************************************************************)
(* The values the variables of one part hold while the other part runs.    *)
(***************************************************************************)
NoCmp == [ab |-> FALSE, ba |-> FALSE]

NoCall ==
    [op |-> "none", ts |-> NullPtr, te |-> NullPtr, pparser |-> NULL_PARSER,
     token_id |-> 0, ltrim |-> 0, rtrim |-> 0,
     prev_mtext |-> <<>>, prev_loc |-> FIRST_TEXT_LOC,
     prev_steps |-> 0, prev_heap |-> 0]

PureIdle ==
    /\ lhs = EMPTY_TEXT_LOC
    /\ rhs = EMPTY_TEXT_LOC
    /\ third = EMPTY_TEXT_LOC
    /\ txt = <<>>
    /\ op = "init"
    /\ cmp = NoCmp
    /\ ret = EMPTY_TEXT_LOC

BridgeIdle ==
    /\ buf = <<>>
    /\ p = 0
    /\ cur_mtext = <<>>
    /\ cur_loc = FIRST_TEXT_LOC
    /\ fpath = ""
    /\ heap = <<>>
    /\ steps = <<>>
    /\ call = NoCall
    /\ aborted = FALSE
    /\ trace = <<>>

(***************************************************************************)
(* AST nodes.  A node is known by its address; the nodes are constructed   *)
(* at the addresses 1, 2, ... in this order, and 0 is nullptr.             *)
(***************************************************************************)
\* nullptr
NullNode == 0

\* the addresses at which nodes are constructed
Nodes == 1..MaxNodes

\* the locations handed to the constructor
AstLocs == {text_loc(1, 0, 1, 3), text_loc(1, 8, 1, 12)}

\* no member function called yet
NoAstCall == [op |-> "none", self |-> NullNode, child |-> NullNode, loc |-> EMPTY_TEXT_LOC]

\* no node constructed
AstIdle ==
    /\ nodes = {}
    /\ parent_ = [x \in Nodes |-> NullNode]
    /\ childs_ = [x \in Nodes |-> {}]
    /\ loc_ = [x \in Nodes |-> EMPTY_TEXT_LOC]
    /\ ast_call = NoAstCall
    /\ root_pc = "idle"
    /\ root_n = NullNode
    /\ added = 0
    /\ ast_aborted = FALSE
    /\ ast_fault = "none"
    /\ owned_ = [x \in Nodes |-> {}]
    /\ released = [x \in Nodes |-> 0]

(***************************************************************************)
(* Calls of the pure functions.                                            *)
(***************************************************************************)
\* lhs < rhs and rhs < lhs are evaluated
CallLess ==
    /\ op' = "operator_lt"
    /\ cmp' = [ab |-> operator_lt(lhs, rhs), ba |-> operator_lt(rhs, lhs)]
    /\ UNCHANGED <<lhs, rhs, third, txt, ret>>
    /\ UNCHANGED bridgeVars
    /\ UNCHANGED astVars
    /\ UNCHANGED ownVars

\* span_loc(lhs, rhs) is evaluated
CallSpanLoc ==
    /\ op' = "span_loc"
    /\ ret' = span_loc(lhs, rhs)
    /\ UNCHANGED <<lhs, rhs, third, txt, cmp>>
    /\ UNCHANGED bridgeVars
    /\ UNCHANGED astVars
    /\ UNCHANGED ownVars

\* mtext_loc(lhs, txt) is evaluated
CallMtextLoc ==
    /\ op' = "mtext_loc"
    /\ ret' = mtext_loc(lhs, txt)
    /\ UNCHANGED <<lhs, rhs, third, txt, cmp>>
    /\ UNCHANGED bridgeVars
    /\ UNCHANGED astVars
    /\ UNCHANGED ownVars

\* The comparison and the span of every pair of locations.
InitLoc ==
    /\ lhs \in TextLocs
    /\ rhs \in TextLocs
    /\ third = EMPTY_TEXT_LOC
    /\ txt = <<>>
    /\ op = "init"
    /\ cmp = NoCmp
    /\ ret = EMPTY_TEXT_LOC
    /\ BridgeIdle
    /\ AstIdle

NextLoc == CallLess \/ CallSpanLoc

SpecLoc == InitLoc /\ [][NextLoc]_vars

\* mtext_loc of every previous location and every string.
InitMtext ==
    /\ lhs \in TextLocs
    /\ rhs = EMPTY_TEXT_LOC
    /\ third = EMPTY_TEXT_LOC
    /\ txt \in StringsUpTo(MaxLen)
    /\ op = "init"
    /\ cmp = NoCmp
    /\ ret = EMPTY_TEXT_LOC
    /\ BridgeIdle
    /\ AstIdle

NextMtext == CallMtextLoc

SpecMtext == InitMtext /\ [][NextMtext]_vars

\* the record of the call just made: kept as it is when the call stopped at
\* an assert, one entry longer when the call has returned
Traced ==
    trace' = IF aborted' THEN trace
             ELSE Append(trace, [op |-> call'.op, te |-> call'.te.off])

(***************************************************************************)
(* The scanner loop: the scanner matches the next lexeme [ts, te) of buf,  *)
(* starting where the last one ended, and its action calls one of the      *)
(* three bridge functions.  A scanner action written wrongly may pass a    *)
(* null pointer, an empty lexeme or trim counts larger than the lexeme.    *)
(***************************************************************************)
\* the lexemes the scanner can match next: [ts, te) with ts where the last
\* lexeme ended and te after it
Lexemes == {<<Ptr(p), Ptr(e)>> : e \in (p + 1)..Len(buf)}

\* the pointer pairs of a wrongly written scanner action: a null pointer
\* for ts or for te, or an empty lexeme
BadLexemes ==
    {<<NullPtr, Ptr(Len(buf))>>, <<Ptr(p), NullPtr>>, <<Ptr(p), Ptr(p)>>}

DoSkipToken ==
    /\ ~aborted
    /\ \/ \E lx \in Lexemes, ltrim \in Trims, rtrim \in Trims :
              skip_token(lx[1], lx[2], ltrim, rtrim)
       \/ \E lx \in BadLexemes : skip_token(lx[1], lx[2], 0, 0)
    /\ Traced
    /\ UNCHANGED pureVars
    /\ UNCHANGED astVars
    /\ UNCHANGED ownVars

DoParseTokenTrimmed ==
    /\ ~aborted
    /\ \/ \E lx \in Lexemes, token_id \in TokenIds, ltrim \in Trims, rtrim \in Trims :
              parse_token_trimmed(lx[1], lx[2], PPARSER, token_id, ltrim, rtrim)
       \/ \E lx \in BadLexemes : parse_token_trimmed(lx[1], lx[2], PPARSER, 1, 0, 0)
       \/ \E lx \in Lexemes : parse_token_trimmed(lx[1], lx[2], NULL_PARSER, 1, 0, 0)
    /\ Traced
    /\ UNCHANGED pureVars
    /\ UNCHANGED astVars
    /\ UNCHANGED ownVars

DoParseNullToken ==
    /\ ~aborted
    /\ \/ \E lx \in Lexemes, token_id \in TokenIds :
              parse_null_token(lx[1], lx[2], PPARSER, token_id)
       \/ \E lx \in BadLexemes : parse_null_token(lx[1], lx[2], PPARSER, 1)
       \/ \E lx \in Lexemes : parse_null_token(lx[1], lx[2], NULL_PARSER, 1)
    /\ Traced
    /\ UNCHANGED pureVars
    /\ UNCHANGED astVars
    /\ UNCHANGED ownVars

\* The scanner is started on a buffer with the running location at
\* FIRST_TEXT_LOC and no text matched yet.
InitBridge ==
    /\ PureIdle
    /\ buf \in StringsUpTo(MaxBuf)
    /\ p = 0
    /\ cur_mtext = <<>>
    /\ cur_loc = FIRST_TEXT_LOC
    /\ fpath \in Paths
    /\ heap = <<>>
    /\ steps = <<>>
    /\ call = NoCall
    /\ aborted = FALSE
    /\ trace = <<>>
    /\ AstIdle

NextBridge == DoSkipToken \/ DoParseTokenTrimmed \/ DoParseNullToken

SpecBridge == InitBridge /\ [][NextBridge]_vars

(***************************************************************************)
(* Vocabulary of the claims about text_loc: positions as <<line, column>>  *)
(* pairs in document order.                                                *)
(***************************************************************************)
StartOf(s) == <<s.first_lno, s.first_cno>>

EndOf(s) == <<s.last_lno, s.last_cno>>

PosLt(x, y) == x[1] < y[1] \/ (x[1] = y[1] /\ x[2] < y[2])

PosLe(x, y) == PosLt(x, y) \/ x = y

\* a span whose start is not after its end
WellFormed(s) == PosLe(StartOf(s), EndOf(s))

\* the closed regions of two spans have a position in common
SharePosition(a, b) == PosLe(StartOf(a), EndOf(b)) /\ PosLe(StartOf(b), EndOf(a))

\* the regions of two spans have more in common than one boundary position
OverlapProperly(a, b) == PosLt(StartOf(a), EndOf(b)) /\ PosLt(StartOf(b), EndOf(a))

\* both spans are the same single point
SamePoint(a, b) == StartOf(a) = EndOf(a) /\ StartOf(b) = EndOf(b) /\ StartOf(a) = StartOf(b)

\* b lies entirely within a
Within(b, a) == PosLe(StartOf(a), StartOf(b)) /\ PosLe(EndOf(b), EndOf(a))

(***************************************************************************)
(* C1 (as stated): whenever A ends before B begins, or at the very         *)
(* position at which B begins, A < B is true and B < A is false, for all   *)
(* spans, zero-width spans and A == B included.                            *)
(***************************************************************************)
C1_AsStated ==
    (op = "operator_lt" /\ PosLe(EndOf(lhs), StartOf(rhs)))
        => (cmp.ab /\ ~cmp.ba)

(***************************************************************************)
(* C1 (amended): whenever A ends before B begins, or at the position at    *)
(* which B begins, A < B is true; B < A is then false when both spans are  *)
(* well formed and are not one and the same zero-width point.  For the     *)
(* same zero-width point A < B and B < A are both true.                    *)
(***************************************************************************)
C1_Precedes ==
    (op = "operator_lt" /\ PosLe(EndOf(lhs), StartOf(rhs)))
        => /\ cmp.ab
           /\ (WellFormed(lhs) /\ WellFormed(rhs) /\ ~SamePoint(lhs, rhs)) => ~cmp.ba
           /\ SamePoint(lhs, rhs) => cmp.ba

\* lhs ends exactly where rhs begins, both of positive width, and was compared
C1_Witness ==
    /\ op = "operator_lt"
    /\ EndOf(lhs) = StartOf(rhs)
    /\ PosLt(StartOf(lhs), EndOf(lhs))
    /\ PosLt(StartOf(rhs), EndOf(rhs))
    /\ cmp.ab
    /\ ~cmp.ba

(***************************************************************************)
(* C2 (as stated): two well-formed spans whose closed regions share at     *)
(* least one position, be it only a boundary position, are not ordered:    *)
(* neither A < B nor B < A.                                                *)
(***************************************************************************)
C2_AsStated ==
    (op = "operator_lt" /\ WellFormed(lhs) /\ WellFormed(rhs) /\ SharePosition(lhs, rhs))
        => (~cmp.ab /\ ~cmp.ba)

(***************************************************************************)
(* C2 (amended): two well-formed spans whose regions share more than one   *)
(* boundary position (each starts strictly before the other ends) are not  *)
(* ordered: neither A < B nor B < A.                                       *)
(***************************************************************************)
C2_Entwined ==
    (op = "operator_lt" /\ WellFormed(lhs) /\ WellFormed(rhs) /\ OverlapProperly(lhs, rhs))
        => (~cmp.ab /\ ~cmp.ba)

\* two different, partially entwined spans were compared
C2_Witness ==
    /\ op = "operator_lt"
    /\ WellFormed(lhs) /\ WellFormed(rhs)
    /\ PosLt(StartOf(lhs), StartOf(rhs))
    /\ PosLt(StartOf(rhs), EndOf(lhs))
    /\ PosLt(EndOf(lhs), EndOf(rhs))
    /\ ~cmp.ab /\ ~cmp.ba

(***************************************************************************)
(* C3: span_loc(A, B) == A whenever B lies entirely within A, also when B  *)
(* ends before A ends.                                                     *)
(***************************************************************************)
C3_Encapsulation ==
    (op = "span_loc" /\ Within(rhs, lhs)) => operator_eq(ret, lhs)

TerminatorStarts(s) ==
    {i \in 1..Len(s) : s[i] = CR \/ (s[i] = LF /\ (i = 1 \/ s[i - 1] # CR))}

\* the number of line-terminator sequences of s, a CRLF counted once
NumTerminators(s) == Cardinality(TerminatorStarts(s))

\* the offset just past the last line-terminator character of s
EndOfLastTerminator(s) ==
    LET nl == {i \in 1..Len(s) : s[i] \in {CR, LF}}
    IN  CHOOSE i \in nl : \A j \in nl : j <= i

(***************************************************************************)
(* C5: for a text with k >= 1 line-terminator sequences (CR, LF or CRLF,   *)
(* a CRLF counted once) mtext_loc returns last_lno = first_lno + k and     *)
(* last_cno = length of the text - offset of the end of the last           *)
(* terminator.                                                             *)
(***************************************************************************)
C5_Newlines ==
    (op = "mtext_loc" /\ NumTerminators(txt) >= 1)
        => /\ ret.last_lno = ret.first_lno + NumTerminators(txt)
           /\ ret.last_cno = Len(txt) - EndOfLastTerminator(txt)

\* mtext_loc was applied to a text that holds a CRLF, a further terminator
\* and characters after the last terminator
C5_Witness ==
    /\ op = "mtext_loc"
    /\ \E i \in 1..(Len(txt) - 1) : txt[i] = CR /\ txt[i + 1] = LF
    /\ NumTerminators(txt) = 2
    /\ ret.last_lno = ret.first_lno + 2
    /\ ret.last_cno = 1

(***************************************************************************)
(* C6: for a text without line terminator mtext_loc returns last_lno =     *)
(* first_lno and last_cno = prev_loc.last_cno + length of the text.        *)
(***************************************************************************)
C6_NoNewline ==
    (op = "mtext_loc" /\ NumTerminators(txt) = 0)
        => /\ ret.last_lno = ret.first_lno
           /\ ret.last_cno = lhs.last_cno + Len(txt)

\* mtext_loc was applied to a non-empty text without terminator
C6_Witness ==
    /\ op = "mtext_loc"
    /\ Len(txt) >= 2
    /\ \A i \in 1..Len(txt) : txt[i] \notin {CR, LF}
    /\ ret.last_cno = lhs.last_cno + Len(txt)

(***************************************************************************)
(* C7: the span mtext_loc returns starts right after the end of the        *)
(* previous span: first_lno = prev_loc.last_lno and first_cno =            *)
(* prev_loc.last_cno + 1, whatever the previous span and the text.         *)
(***************************************************************************)
C7_StartsAfterPrev ==
    op = "mtext_loc"
        => /\ ret.first_lno = lhs.last_lno
           /\ ret.first_cno = lhs.last_cno + 1

\* mtext_loc was applied to a text with a terminator after a previous span
\* that ends past column 0
C7_Witness ==
    /\ op = "mtext_loc"
    /\ lhs.last_cno > 0
    /\ NumTerminators(txt) >= 1
    /\ ret.first_cno = lhs.last_cno + 1

(***************************************************************************)
(* Vocabulary of the claims about the bridge: the last call, and the line  *)
(* and column of a character of the input, counted on the input itself.    *)
(***************************************************************************)
\* the bridge call made last has returned
Returned(name) == call.op = name /\ ~aborted

\* the raw lexeme [ts, te) of the last call and its trimmed part
RawText == SubSeq(buf, call.ts.off + 1, call.te.off)

TrimmedText == SubSeq(buf, call.ts.off + call.ltrim + 1, call.te.off - call.rtrim)

\* the indices before i at which a line terminator of the input ends: an LF,
\* or a CR that no LF follows
TerminatorEndsBefore(i) ==
    {j \in 1..(i - 1) :
        \/ buf[j] = LF
        \/ (buf[j] = CR /\ ~(j < Len(buf) /\ buf[j + 1] = LF))}

\* the 1-based line and column of the i-th character of the input
LineOf(i) == 1 + Cardinality(TerminatorEndsBefore(i))

ColOf(i) ==
    LET ends == TerminatorEndsBefore(i) \cup {0}
    IN  i - (CHOOSE j \in ends : \A k \in ends : k <= j)

(***************************************************************************)
(* C8: starting from FIRST_TEXT_LOC and applying mtext_loc to the          *)
(* consecutive non-empty lexemes of an input, every resulting span starts  *)
(* at the line and column of the first character of its lexeme and ends at *)
(* the line and column of its last character, also when the lexeme begins  *)
(* or ends with a line terminator.                                         *)
(***************************************************************************)
C8_ExactPositions ==
    (call.op # "none" /\ ~aborted)
        => /\ StartOf(cur_loc) = <<LineOf(call.ts.off + 1), ColOf(call.ts.off + 1)>>
           /\ EndOf(cur_loc) = <<LineOf(call.te.off), ColOf(call.te.off)>>

(***************************************************************************)
(* C9: parse_token_trimmed computes the running location from the full     *)
(* raw lexeme: it is mtext_loc(previous loc, text of [ts, te)), and every  *)
(* pair of trim counts the call accepts gives that same location.          *)
(***************************************************************************)
C9_LocFromRawLexeme ==
    Returned("parse_token_trimmed")
        => /\ cur_loc = mtext_loc(call.prev_loc, RawText)
           /\ \A l \in Trims, r \in Trims :
                  set_mtext_and_loc_trimmed_pre(call.ts, call.te, l, r)
                      => set_mtext_and_loc_trimmed(call.prev_mtext, call.prev_loc, fpath,
                                                   call.ts, call.te, l, r).loc = cur_loc

\* parse_token_trimmed has returned from a call that trimmed a line
\* terminator off the lexeme, so that the trimmed text alone gives another
\* location
C9_Witness ==
    /\ Returned("parse_token_trimmed")
    /\ call.ltrim = 1
    /\ call.rtrim = 1
    /\ NumTerminators(RawText) > NumTerminators(TrimmedText)
    /\ cur_loc # mtext_loc(call.prev_loc, TrimmedText)

(***************************************************************************)
(* C10: a parse_token_trimmed call that passes its asserts invokes         *)
(* parse_func exactly once, after mtext and loc are updated, with the      *)
(* given parser handle and token kind, the shared context, and a newly     *)
(* allocated lex_token that holds the characters of [ts+ltrim, te-rtrim),  *)
(* fpath and the updated running loc.                                      *)
(***************************************************************************)
C10_TokenDelivered ==
    Returned("parse_token_trimmed")
        => /\ Len(steps) = call.prev_steps + 1
           /\ Len(heap) = call.prev_heap + 1
           /\ LET step == steps[Len(steps)]
              IN  /\ step.pparser = call.pparser
                  /\ step.token_id = call.token_id
                  /\ step.context = CONTEXT
                  /\ step.mtext = cur_mtext
                  /\ step.loc = cur_loc
                  /\ step.token = Len(heap)
                  /\ \A k \in 1..(Len(steps) - 1) : steps[k].token # step.token
                  /\ heap[step.token].mtext = TrimmedText
                  /\ heap[step.token].fpath = fpath
                  /\ heap[step.token].loc = cur_loc

\* a second token has been delivered, its first character trimmed off,
\* for a file
C10_Witness ==
    /\ Returned("parse_token_trimmed")
    /\ call.ltrim = 1
    /\ fpath # ""
    /\ Len(heap) = 2
    /\ heap[2].mtext = TrimmedText
    /\ heap[2].mtext # RawText
    /\ steps[Len(steps)].token = 2

\* the trimmed length (te - rtrim) - (ts + ltrim) of the last call
TrimmedLength == (call.te.off - call.rtrim) - (call.ts.off + call.ltrim)

\* the last call was given non-null ts and te
PointersGiven == ~call.ts.null /\ ~call.te.null

(***************************************************************************)
(* C11: parse_token_trimmed returns without assertion failure from every   *)
(* call with non-null ts, te and pparser and a trimmed length of zero or   *)
(* more (an empty quoted string has trimmed length zero); an assertion     *)
(* fails only when a pointer is null or the trimmed length is negative.    *)
(***************************************************************************)
C11_AcceptsNonNegative ==
    call.op = "parse_token_trimmed"
        => (aborted <=> (~PointersGiven \/ call.pparser = NULL_PARSER \/ TrimmedLength < 0))

\* the running mtext and loc parse_token_trimmed leaves when called in the
\* state and with the ts, te, ltrim and rtrim of the last call
AfterParseTokenTrimmed ==
    set_mtext_and_loc_trimmed(call.prev_mtext, call.prev_loc, fpath,
                              call.ts, call.te, call.ltrim, call.rtrim)

(***************************************************************************)
(* C12: skip_token does the bookkeeping of parse_token_trimmed: called     *)
(* with the same previous loc, ts, te, ltrim and rtrim, it leaves the      *)
(* running mtext and the running loc that parse_token_trimmed leaves.      *)
(***************************************************************************)
C12_SameBookkeeping ==
    (/\ Returned("skip_token")
     /\ set_mtext_and_loc_trimmed_pre(call.ts, call.te, call.ltrim, call.rtrim))
        => /\ cur_loc = AfterParseTokenTrimmed.loc
           /\ cur_mtext = AfterParseTokenTrimmed.mtext

(***************************************************************************)
(* C13: no call of skip_token, whatever its arguments and whether it       *)
(* returns or stops at an assert, invokes parse_func or allocates a        *)
(* lex_token; a call that returns has set the running mtext to the text of *)
(* the lexeme and the running loc to mtext_loc of the previous loc and     *)
(* that text.                                                              *)
(***************************************************************************)
C13_SkipsQuietly ==
    [][call'.op = "skip_token"
          => /\ steps' = steps
             /\ heap' = heap
             /\ ~aborted'
                   => /\ cur_mtext' = SubSeq(buf, call'.ts.off + 1, call'.te.off)
                      /\ cur_loc' = mtext_loc(cur_loc, cur_mtext')
                      /\ cur_loc' # cur_loc]_vars

\* skip_token has returned from a call with a trim count, after a token
\* had been delivered to the parser
C13_Witness ==
    /\ Returned("skip_token")
    /\ call.ltrim = 1
    /\ Len(heap) = 1
    /\ Len(steps) = call.prev_steps
    /\ cur_mtext = RawText
    /\ cur_loc # call.prev_loc

(***************************************************************************)
(* C14: a parse_null_token call that passes its asserts invokes parse_func *)
(* exactly once, with the given parser handle and token kind, a null       *)
(* pointer as the token and the shared context; it allocates no lex_token; *)
(* it sets the running mtext to the text of the whole lexeme [ts, te) and  *)
(* the running loc to mtext_loc of the previous loc and that text, both    *)
(* before the parser is entered.                                           *)
(***************************************************************************)
C14_NullTokenStep ==
    [][(call'.op = "parse_null_token" /\ ~aborted')
          => /\ Len(steps') = Len(steps) + 1
             /\ SubSeq(steps', 1, Len(steps)) = steps
             /\ heap' = heap
             /\ cur_mtext' = SubSeq(buf, call'.ts.off + 1, call'.te.off)
             /\ cur_loc' = mtext_loc(cur_loc, cur_mtext')
             /\ LET step == steps'[Len(steps')]
                IN  /\ step.pparser = call'.pparser
                    /\ step.token_id = call'.token_id
                    /\ step.token = 0
                    /\ step.context = CONTEXT
                    /\ step.mtext = cur_mtext'
                    /\ step.loc = cur_loc']_vars

\* parse_null_token has returned from a call for the second token kind on a
\* lexeme of two characters, after a token had been allocated
C14_Witness ==
    /\ Returned("parse_null_token")
    /\ call.token_id = 2
    /\ Len(RawText) = 2
    /\ Len(heap) = 1
    /\ Len(steps) = 2
    /\ steps[2].token = 0
    /\ steps[2].token_id = 2
    /\ cur_mtext = RawText

\* the offset at which the lexeme of the k-th returned call started: the
\* start of the input, or the end of the lexeme before
LexemeStart(k) == IF k = 1 THEN 0 ELSE trace[k - 1].te

\* the raw, untrimmed text of the lexeme of the k-th returned call
LexemeText(k) == SubSeq(buf, LexemeStart(k) + 1, trace[k].te)

\* mtext_loc folded over the raw texts of the first k lexemes, from the
\* location the scanner starts with
RECURSIVE FoldLoc(_)
FoldLoc(k) ==
    IF k = 0 THEN FIRST_TEXT_LOC ELSE mtext_loc(FoldLoc(k - 1), LexemeText(k))

(***************************************************************************)
(* C15: after any sequence of skip_token, parse_token_trimmed and          *)
(* parse_null_token calls over consecutive lexemes, with any trim counts,  *)
(* the running loc is mtext_loc folded over the raw texts of the lexemes,  *)
(* starting from the initial loc; and every call that passes its asserts   *)
(* has assigned the running loc (a location different from the previous    *)
(* one) and the running mtext (the text of its lexeme, trimmed by          *)
(* parse_token_trimmed only).                                              *)
(***************************************************************************)
C15_LocIsFold ==
    /\ cur_loc = FoldLoc(Len(trace))
    /\ (call.op # "none" /\ ~aborted)
          => /\ trace[Len(trace)] = [op |-> call.op, te |-> call.te.off]
             /\ LexemeStart(Len(trace)) = call.ts.off
             /\ cur_loc = mtext_loc(call.prev_loc, RawText)
             /\ cur_loc # call.prev_loc
             /\ cur_mtext = IF call.op = "parse_token_trimmed" THEN TrimmedText ELSE RawText

\* three lexemes have been consumed, one by each of the three functions,
\* and a line terminator among them
C15_Witness ==
    /\ ~aborted
    /\ Len(trace) = 3
    /\ {trace[k].op : k \in 1..3} = {"skip_token", "parse_token_trimmed", "parse_null_token"}
    /\ cur_loc.last_lno > 1
    /\ cur_loc = FoldLoc(3)

\* the returned calls of the function name
CallsOf(name) == {k \in 1..Len(trace) : trace[k].op = name}

\* the invocations of parse_func that were handed the token at address a
StepsWithToken(a) == {k \in 1..Len(steps) : steps[k].token = a}

(***************************************************************************)
(* C16: at every point of any sequence of bridge calls there are as many   *)
(* lex_token objects allocated as parse_token_trimmed has been called      *)
(* (calls that passed the asserts); every allocated token was handed to    *)
(* exactly one invocation of parse_func, and the bridge has not released   *)
(* or changed it since: it is still on the heap as it was allocated.       *)
(***************************************************************************)
C16_OneTokenPerDelivery ==
    /\ Len(heap) = Cardinality(CallsOf("parse_token_trimmed"))
    /\ \A a \in 1..Len(heap) :
           /\ Cardinality(StepsWithToken(a)) = 1
           /\ \A k \in StepsWithToken(a) :
                  heap[a] = lex_token(steps[k].mtext, fpath, steps[k].loc)
    /\ \A k \in 1..Len(steps) : steps[k].token \in 0..Len(heap)

\* two tokens have been delivered, and a lexeme without token between them
C16_Witness ==
    /\ ~aborted
    /\ Len(trace) = 3
    /\ trace[1].op = "parse_token_trimmed"
    /\ trace[2].op # "parse_token_trimmed"
    /\ trace[3].op = "parse_token_trimmed"
    /\ Len(heap) = 2
    /\ steps[Len(steps)].token = 2

(***************************************************************************)
(* The member functions of ast_base_type.                                  *)
(***************************************************************************)
\* ast_base_type<AstEnumType>* parent() const, its assert passed
parent(x) == parent_[x]

\* bool is_root() const
is_root(x) == x = parent(x)

\* std::set<ast_base_type<AstEnumType>*> childs() const
childs(x) == childs_[x]

\* text_loc loc() const
loc(x) == loc_[x]

\* the member function called last
AstCall(name, this, child, l) ==
    [op |-> name, self |-> this, child |-> child, loc |-> l]

\* a call of root() that was running or had returned is over when the next
\* member function is called
RootOver ==
    /\ root_pc' = "idle"
    /\ root_n' = NullNode

\* the constructor leaving the node without parent
ast_base_type_orphan(this, l) ==
    /\ nodes' = nodes \cup {this}
    /\ parent_' = [parent_ EXCEPT ![this] = NullNode]
    /\ childs_' = [childs_ EXCEPT ![this] = {}]
    /\ loc_' = [loc_ EXCEPT ![this] = l]
    /\ UNCHANGED <<ast_aborted, ast_fault>>

\* ast_base_type(const text_loc& loc) : parent_(this), childs_(), loc_(loc);
\* its assert(parent_ != nullptr) holds, this being the address of an object
ast_base_type(this, l) ==
    /\ nodes' = nodes \cup {this}
    /\ parent_' = [parent_ EXCEPT ![this] = this]
    /\ childs_' = [childs_ EXCEPT ![this] = {}]
    /\ loc_' = [loc_ EXCEPT ![this] = l]
    /\ UNCHANGED <<ast_aborted, ast_fault>>

\* add_child that inserts the child and leaves the child's parent_ alone
add_child_unlinked(this, child) ==
    /\ childs_' = [childs_ EXCEPT ![this] = @ \cup {child}]
    /\ UNCHANGED <<nodes, parent_, loc_, ast_aborted, ast_fault>>

\* void add_child(ast_base_type<AstEnumType>* const child)
add_child(this, child) ==
    IF child = NullNode
    THEN \* child->parent_ = this writes through a null pointer: undefined
         \* behaviour.  The store traps and the process is killed, or it
         \* does not and childs_.insert(child) is executed.
         /\ \/ /\ ast_fault' = "segv"
               /\ UNCHANGED childs_
            \/ /\ ast_fault' = "ub"
               /\ childs_' = [childs_ EXCEPT ![this] = @ \cup {child}]
         /\ UNCHANGED <<nodes, parent_, loc_, ast_aborted>>
    ELSE /\ parent_' = [parent_ EXCEPT ![child] = this]
         /\ childs_' = [childs_ EXCEPT ![this] = @ \cup {child}]
         /\ UNCHANGED <<nodes, loc_, ast_aborted, ast_fault>>

(***************************************************************************)
(* The program that builds and walks the tree: it constructs nodes, has    *)
(* nodes add nodes as their children (a derived class may call add_child   *)
(* with any node), and calls root().  The program is single-threaded: while*)
(* root() runs nothing else does.                                          *)
(***************************************************************************)
\* a node is constructed at the next address
Construct ==
    /\ ~ast_aborted
    /\ ast_fault = "none"
    /\ root_pc # "loop"
    /\ Cardinality(nodes) < MaxNodes
    /\ \E l \in AstLocs :
           /\ ast_base_type(Cardinality(nodes) + 1, l)
           /\ ast_call' = AstCall("ast_base_type", Cardinality(nodes) + 1, NullNode, l)
    /\ RootOver
    /\ UNCHANGED added
    /\ UNCHANGED ownVars
    /\ UNCHANGED pureVars
    /\ UNCHANGED bridgeVars

\* a node adds a node, or a null pointer, as its child
DoAddChild ==
    /\ ~ast_aborted
    /\ ast_fault = "none"
    /\ root_pc # "loop"
    /\ added < MaxAddChild
    /\ \E this \in nodes, child \in nodes \cup {NullNode} :
           /\ add_child(this, child)
           /\ ast_call' = AstCall("add_child", this, child, EMPTY_TEXT_LOC)
    /\ added' = added + 1
    /\ RootOver
    /\ UNCHANGED ownVars
    /\ UNCHANGED pureVars
    /\ UNCHANGED bridgeVars

\* root() is called on a node: const ast_base_type<AstEnumType>* n = this
CallRoot ==
    /\ ~ast_aborted
    /\ ast_fault = "none"
    /\ root_pc # "loop"
    /\ \E this \in nodes :
           /\ root_n' = this
           /\ ast_call' = AstCall("root", this, NullNode, EMPTY_TEXT_LOC)
    /\ root_pc' = "loop"
    /\ UNCHANGED <<nodes, parent_, childs_, loc_, added, ast_aborted, ast_fault>>
    /\ UNCHANGED ownVars
    /\ UNCHANGED pureVars
    /\ UNCHANGED bridgeVars

\* one pass through the body of the loop of root(): the assert on n, the
\* assert of parent() inside is_root(), then the break and the return of n, or
\* n = n->parent()
RootLoop ==
    /\ ~ast_aborted
    /\ ast_fault = "none"
    /\ root_pc = "loop"
    /\ IF root_n = NullNode \/ parent_[root_n] = NullNode
       THEN /\ ast_aborted' = TRUE
            /\ UNCHANGED <<root_pc, root_n>>
       ELSE IF is_root(root_n)
            THEN /\ root_pc' = "done"
                 /\ UNCHANGED <<root_n, ast_aborted>>
            ELSE /\ root_n' = parent(root_n)
                 /\ UNCHANGED <<root_pc, ast_aborted>>
    /\ UNCHANGED <<nodes, parent_, childs_, loc_, ast_call, added, ast_fault>>
    /\ UNCHANGED ownVars
    /\ UNCHANGED pureVars
    /\ UNCHANGED bridgeVars

\* The program starts without any node.
InitAst ==
    /\ PureIdle
    /\ BridgeIdle
    /\ AstIdle

NextAst == Construct \/ DoAddChild \/ CallRoot \/ RootLoop

SpecAst == InitAst /\ [][NextAst]_vars

\* root() once entered keeps running: every pass of its loop that can be
\* made is made
SpecAstLive == SpecAst /\ WF_vars(RootLoop)

(***************************************************************************)
(* C17: a node that has just been constructed is its own parent, reports   *)
(* is_root() true, has no children, and reports the location that was      *)
(* handed to its constructor.                                              *)
(***************************************************************************)
C17_FreshNode ==
    ast_call.op = "ast_base_type"
        => /\ ast_call.self \in nodes
           /\ parent(ast_call.self) = ast_call.self
           /\ is_root(ast_call.self)
           /\ childs(ast_call.self) = {}
           /\ loc(ast_call.self) = ast_call.loc

\* a third node has just been constructed, with the second location, beside
\* a node that has a child
C17_Witness ==
    /\ ast_call.op = "ast_base_type"
    /\ ast_call.self = 3
    /\ loc(3) = text_loc(1, 8, 1, 12)
    /\ is_root(3)
    /\ 1 \in childs(2)

\* the member function called last was p.add_child(c) with c another node
\* than p
AddedOtherNode ==
    /\ ast_call.op = "add_child"
    /\ ast_call.child \in nodes
    /\ ast_call.self # ast_call.child

(***************************************************************************)
(* C18: after p.add_child(c), c being another node than p: c.parent() is   *)
(* p, c.is_root() is false, p.childs() holds c exactly once, and           *)
(* p.parent() and p.is_root() are what they were before the call; when c   *)
(* was in p.childs() before the call, p.childs() is what it was.           *)
(***************************************************************************)
C18_AddChild ==
    [][AddedOtherNode'
          => /\ (parent(ast_call.child) = ast_call.self)'
             /\ (~is_root(ast_call.child))'
             /\ (Cardinality({x \in childs(ast_call.self) : x = ast_call.child}) = 1)'
             /\ (parent(ast_call.self))' = parent(ast_call'.self)
             /\ (is_root(ast_call.self))' = is_root(ast_call'.self)
             /\ (ast_call'.child \in childs(ast_call'.self))
                   => (childs(ast_call.self))' = childs(ast_call'.self)]_vars

\* a node with a child has been given a second child, and has then been
\* given that child again
C18_Witness ==
    /\ AddedOtherNode
    /\ added = 3
    /\ is_root(ast_call.self)
    /\ Cardinality(childs(ast_call.self)) = 2
    /\ \A x \in childs(ast_call.self) : parent(x) = ast_call.self /\ ~is_root(x)

\* the nodes that hold c in their child set
HoldersOf(c) == {x \in nodes : c \in childs(x)}

(***************************************************************************)
(* C19: after any sequence of add_child calls on any nodes the parent and  *)
(* child links agree: for all distinct nodes x and c, c is in x.childs()   *)
(* if and only if c.parent() is x; so every node that is not a root is in  *)
(* the child set of exactly one node, also when a node that has a parent   *)
(* is added to another node.                                               *)
(***************************************************************************)
C19_Bidirectional ==
    /\ \A x \in nodes, c \in nodes :
           x # c => (c \in childs(x) <=> parent(c) = x)
    /\ \A c \in nodes :
           ~is_root(c) => Cardinality(HoldersOf(c)) = 1

(***************************************************************************)
(* C20: a call of root() on any node of any structure built by add_child   *)
(* calls comes to an end: it returns, and then the node returned is an     *)
(* ancestor that is its own parent, or it stops at a failed assert (when   *)
(* the parent links form a cycle that is not the self-loop of a root); it  *)
(* does not run forever.                                                   *)
(***************************************************************************)
C20_RootTerminates ==
    /\ [](root_pc = "done" => is_root(root_n))
    /\ (root_pc = "loop") ~> (root_pc = "done" \/ ast_aborted)

(***************************************************************************)
(* C21: a call of add_child (or of add_childs, which calls add_child for   *)
(* every element) with a null child ends at a failed assert, and the       *)
(* parent_ and childs_ of the adding node and of all other nodes are what  *)
(* they were before the call.                                              *)
(***************************************************************************)
C21_NullChildAsserted ==
    [][(ast_call'.op = "add_child" /\ ast_call'.child = NullNode)
          => /\ ast_aborted'
             /\ childs_' = childs_
             /\ parent_' = parent_]_vars

(***************************************************************************)
(* Trees of the derived node classes.  ast_binop_logor and ast_data_decl   *)
(* hold their operands in std::unique_ptr<ast_base> members and add them   *)
(* as children in their constructors; ast_bool_literal is a leaf.  No      *)
(* class of the hierarchy declares a destructor: the destructor of         *)
(* ast_base_type is implicit and not virtual.                              *)
(***************************************************************************)
\* the nodes a constructor can be handed as an operand: alive, and neither
\* owned by a node nor the child of one
Operands == {x \in nodes : released[x] = 0 /\ is_root(x) /\ \A y \in nodes : x \notin owned_[y]}

\* the address of the node constructed next
NextNode == Cardinality(nodes) + 1

\* ast_bool_literal(loc, value): the base constructor only
ast_bool_literal(this, l) ==
    /\ nodes' = nodes \cup {this}
    /\ parent_' = [parent_ EXCEPT ![this] = this]
    /\ childs_' = [childs_ EXCEPT ![this] = {}]
    /\ loc_' = [loc_ EXCEPT ![this] = l]
    /\ owned_' = [owned_ EXCEPT ![this] = {}]

\* ast_binop_logor(loc, lexpr, rexpr): the base constructor, lexpr_(lexpr),
\* rexpr_(rexpr), then add_childs(lexpr_.get(), rexpr_.get())
ast_binop_logor(this, l, lexpr, rexpr) ==
    /\ nodes' = nodes \cup {this}
    /\ parent_' = [parent_ EXCEPT ![this] = this, ![lexpr] = this, ![rexpr] = this]
    /\ childs_' = [childs_ EXCEPT ![this] = {lexpr, rexpr}]
    /\ loc_' = [loc_ EXCEPT ![this] = l]
    /\ owned_' = [owned_ EXCEPT ![this] = {lexpr, rexpr}]

\* ast_data_decl(loc, name, expr): the base constructor, expr_(expr), then
\* add_child(expr)
ast_data_decl(this, l, expr) ==
    /\ nodes' = nodes \cup {this}
    /\ parent_' = [parent_ EXCEPT ![this] = this, ![expr] = this]
    /\ childs_' = [childs_ EXCEPT ![this] = {expr}]
    /\ loc_' = [loc_ EXCEPT ![this] = l]
    /\ owned_' = [owned_ EXCEPT ![this] = {expr}]

\* delete of the nodes of the set through pointers of the type ast_base*
\* (a delete-expression, or the deleter of a std::unique_ptr<ast_base>),
\* the objects being of derived classes and the destructor of ast_base not
\* virtual: undefined behaviour.  Either the destructor of the base class
\* alone is run on each node and its storage is given back, the members of
\* the derived class (its std::unique_ptr operands) never being destroyed,
\* or the deallocation, handed the size of the base class, stops the process.
delete_through_base(also, through) ==
    \/ /\ released' = [x \in Nodes |->
                          IF x \in also \cup through THEN released[x] + 1 ELSE released[x]]
       /\ UNCHANGED ast_fault
    \/ /\ through # {}
       /\ ast_fault' = "heap"
       /\ UNCHANGED released

\* the values the variables of root() and add_child keep in these programs
OwnFrame ==
    /\ UNCHANGED <<root_pc, root_n, added, ast_aborted>>
    /\ UNCHANGED pureVars
    /\ UNCHANGED bridgeVars

NewBoolLiteral ==
    /\ ast_fault = "none"
    /\ NextNode \in Nodes
    /\ \E l \in AstLocs :
           /\ ast_bool_literal(NextNode, l)
           /\ ast_call' = AstCall("ast_bool_literal", NextNode, NullNode, l)
    /\ UNCHANGED <<released, ast_fault>>
    /\ OwnFrame

NewBinopLogor ==
    /\ ast_fault = "none"
    /\ NextNode \in Nodes
    /\ \E l \in AstLocs, lexpr \in Operands, rexpr \in Operands :
           /\ lexpr # rexpr
           /\ ast_binop_logor(NextNode, l, lexpr, rexpr)
           /\ ast_call' = AstCall("ast_binop_logor", NextNode, NullNode, l)
    /\ UNCHANGED <<released, ast_fault>>
    /\ OwnFrame

NewDataDecl ==
    /\ ast_fault = "none"
    /\ NextNode \in Nodes
    /\ \E l \in AstLocs, expr \in Operands :
           /\ ast_data_decl(NextNode, l, expr)
           /\ ast_call' = AstCall("ast_data_decl", NextNode, NullNode, l)
    /\ UNCHANGED <<released, ast_fault>>
    /\ OwnFrame

\* delete of a root through a pointer of its own class, as the tests do
\* (delete binop, delete decl): the implicit destructor of the class destroys
\* the std::unique_ptr<ast_base> members, each of which deletes its node
\* through ast_base*
DeleteDerived ==
    /\ ast_fault = "none"
    /\ \E x \in Operands :
           /\ delete_through_base({x}, owned_[x])
           /\ ast_call' = AstCall("delete", x, NullNode, EMPTY_TEXT_LOC)
    /\ UNCHANGED <<nodes, parent_, childs_, loc_, owned_>>
    /\ OwnFrame

\* delete of a root through a pointer of the type ast_base*
DeleteBase ==
    /\ ast_fault = "none"
    /\ \E x \in Operands :
           /\ delete_through_base({}, {x})
           /\ ast_call' = AstCall("delete ast_base*", x, NullNode, EMPTY_TEXT_LOC)
    /\ UNCHANGED <<nodes, parent_, childs_, loc_, owned_>>
    /\ OwnFrame

NextOwn == NewBoolLiteral \/ NewBinopLogor \/ NewDataDecl \/ DeleteDerived \/ DeleteBase

SpecOwn == InitAst /\ [][NextOwn]_vars

\* the nodes a node owns, directly or through nodes it owns
RECURSIVE OwnedBy(_)
OwnedBy(x) == owned_[x] \cup UNION {OwnedBy(y) : y \in owned_[x]}

(***************************************************************************)
(* C22: when a root node has been deleted through a pointer of the type    *)
(* ast_base*, every node it owns, directly or through nodes it owns, has   *)
(* been destroyed exactly once, whether the tree is a chain or branches    *)
(* and whatever its depth, and no other node has been destroyed by it.     *)
(***************************************************************************)
C22_DestroysDescendantsOnce ==
    ast_call.op = "delete ast_base*"
        => /\ ast_fault = "none"
           /\ released[ast_call.self] = 1
           /\ \A x \in OwnedBy(ast_call.self) : released[x] = 1

(***************************************************************************)
(* escchr and escstr.  The characters that matter are the six the switch   *)
(* of escchr names and, for "any other", a letter that occurs in an escape *)
(* and one that does not.                                                  *)
(***************************************************************************)
FF == "FF"
VT == "VT"
HT == "HT"
BACKSLASH == "\\"

EscChar == {LF, CR, FF, VT, HT, BACKSLASH, "n", "a"}

\* the strings over the set A of at most n characters
RECURSIVE StringsOver(_, _)
StringsOver(A, n) ==
    IF n = 0 THEN {<<>>}
    ELSE LET shorter == StringsOver(A, n - 1)
         IN  shorter \cup {Append(s, c) : s \in {t \in shorter : Len(t) = n - 1}, c \in A}

\* escchr without the case for the horizontal tab
escchr_without_tab(c) ==
    CASE c = LF -> <<BACKSLASH, "n">>
      [] c = CR -> <<BACKSLASH, "r">>
      [] c = FF -> <<BACKSLASH, "f">>
      [] c = VT -> <<BACKSLASH, "v">>
      [] c = BACKSLASH -> <<BACKSLASH, BACKSLASH>>
      [] OTHER -> <<c>>

\* std::string escchr(const char c)
escchr(c) ==
    CASE c = LF -> <<BACKSLASH, "n">>
      [] c = CR -> <<BACKSLASH, "r">>
      [] c = FF -> <<BACKSLASH, "f">>
      [] c = VT -> <<BACKSLASH, "v">>
      [] c = HT -> <<BACKSLASH, "t">>
      [] c = BACKSLASH -> <<BACKSLASH, BACKSLASH>>
      [] OTHER -> <<c>>

\* the loop of escstr: es += escchr(*si) from the si-th character on
RECURSIVE escstr_loop(_, _, _)
escstr_loop(s, si, es) ==
    IF si > Len(s) THEN es ELSE escstr_loop(s, si + 1, es \o escchr(s[si]))

\* std::string escstr(const std::string& s)
escstr(s) == escstr_loop(s, 1, <<>>)

\* escstr(txt) is evaluated
CallEscstr ==
    /\ op' = "escstr"
    /\ ret' = escstr(txt)
    /\ UNCHANGED <<lhs, rhs, third, txt, cmp>>
    /\ UNCHANGED bridgeVars
    /\ UNCHANGED astVars
    /\ UNCHANGED ownVars

\* escstr of every string.
InitEsc ==
    /\ lhs = EMPTY_TEXT_LOC
    /\ rhs = EMPTY_TEXT_LOC
    /\ third = EMPTY_TEXT_LOC
    /\ txt \in StringsOver(EscChar, MaxEsc)
    /\ op = "init"
    /\ cmp = NoCmp
    /\ ret = <<>>
    /\ BridgeIdle
    /\ AstIdle

NextEsc == CallEscstr

SpecEsc == InitEsc /\ [][NextEsc]_vars

\* the six characters that are escaped and the letter of the escape of each
Escaped == {LF, CR, FF, VT, HT, BACKSLASH}

EscapeLetter ==
    [c \in Escaped |->
        IF c = LF THEN "n" ELSE IF c = CR THEN "r" ELSE IF c = FF THEN "f"
        ELSE IF c = VT THEN "v" ELSE IF c = HT THEN "t" ELSE BACKSLASH]

\* the offset in escstr(s) at which the image of the i-th character of s
\* starts: one place for every character before it, and one more for each
\* of them that is escaped
ImageStart(s, i) == (i - 1) + Cardinality({j \in 1..(i - 1) : s[j] \in Escaped})

(***************************************************************************)
(* C23: escstr replaces each newline, carriage return, form feed, vertical *)
(* tab, horizontal tab and backslash by a backslash followed by n, r, f,   *)
(* v, t or a backslash, and copies every other character, all in the order *)
(* of the input; the empty string gives the empty string and a string with *)
(* none of the six characters gives itself.                                *)
(***************************************************************************)
C23_Escstr ==
    op = "escstr"
        => /\ Len(ret) = ImageStart(txt, Len(txt) + 1)
           /\ \A i \in 1..Len(txt) :
                  IF txt[i] \in Escaped
                  THEN /\ ret[ImageStart(txt, i) + 1] = BACKSLASH
                       /\ ret[ImageStart(txt, i) + 2] = EscapeLetter[txt[i]]
                  ELSE ret[ImageStart(txt, i) + 1] = txt[i]
           /\ (txt = <<>> => ret = <<>>)
           /\ ((\A i \in 1..Len(txt) : txt[i] \notin Escaped) => ret = txt)

\* escstr was applied to a string with a horizontal tab, a backslash and a
\* letter between them
C23_Witness ==
    /\ op = "escstr"
    /\ txt = <<HT, "n", BACKSLASH>>
    /\ ret = <<BACKSLASH, "t", "n", BACKSLASH, BACKSLASH>>

(***************************************************************************)
(* Serialization to an output stream.  What is written to the stream is    *)
(* the sequence of its characters; a number is written in decimal.         *)
(***************************************************************************)
Digit == <<"0", "1", "2", "3", "4", "5", "6", "7", "8", "9">>

\* os << n for a size_t n
RECURSIVE Decimal(_)
Decimal(n) ==
    IF n < 10 THEN <<Digit[n + 1]>>
    ELSE Decimal(n \div 10) \o <<Digit[(n % 10) + 1]>>

\* fpath.c_str(): the characters of the path
c_str(f) == IF f = "" THEN <<>> ELSE <<"i", "n", ".", "s", "r", "c">>

\* operator<< for text_loc that writes all four numbers in every case
operator_shl_text_loc_full(l) ==
    Decimal(l.first_lno) \o <<":">> \o Decimal(l.first_cno)
        \o <<"-">> \o Decimal(l.last_lno) \o <<":">> \o Decimal(l.last_cno)

\* std::ostream &operator <<(std::ostream &os, const text_loc &loc)
operator_shl_text_loc(l) ==
    IF l.first_lno = l.last_lno
    THEN Decimal(l.first_lno) \o <<":">> \o Decimal(l.first_cno)
             \o (IF l.first_cno # l.last_cno
                 THEN <<"-">> \o Decimal(l.last_cno)
                 ELSE <<>>)
    ELSE Decimal(l.first_lno) \o <<":">> \o Decimal(l.first_cno)
             \o <<"-">> \o Decimal(l.last_lno) \o <<":">> \o Decimal(l.last_cno)

\* std::ostream& operator<<(std::ostream& os, const lex_token& token)
operator_shl_lex_token(token) ==
    <<"L", "E", "X", "_", "T", "O", "K", "E", "N", "(", "\"">>
        \o escstr(token.mtext) \o <<"\"", ",">>
        \o (IF token.fpath # ""
            THEN <<"\"">> \o c_str(token.fpath) \o <<"\"", ",">>
            ELSE <<>>)
        \o operator_shl_text_loc(token.loc) \o <<")">>

\* the texts and locations of the tokens that are written
RenderTexts == StringsOver({LF, BACKSLASH, "a"}, MaxRender)

RenderLocs ==
    {text_loc(fl, fc, ll, lc) : fl \in {1, 2}, fc \in {0, 12}, ll \in {1, 2}, lc \in {0, 12}}

\* os << lex_token(txt, fpath, lhs) is evaluated
CallShlLexToken ==
    /\ op' = "operator_shl"
    /\ ret' = operator_shl_lex_token(lex_token(txt, fpath, lhs))
    /\ UNCHANGED <<lhs, rhs, third, txt, cmp>>
    /\ UNCHANGED bridgeVars
    /\ UNCHANGED astVars
    /\ UNCHANGED ownVars

\* The serialization of every token.
InitRender ==
    /\ lhs \in RenderLocs
    /\ rhs = EMPTY_TEXT_LOC
    /\ third = EMPTY_TEXT_LOC
    /\ txt \in RenderTexts
    /\ op = "init"
    /\ cmp = NoCmp
    /\ ret = <<>>
    /\ buf = <<>>
    /\ p = 0
    /\ cur_mtext = <<>>
    /\ cur_loc = FIRST_TEXT_LOC
    /\ fpath \in Paths
    /\ heap = <<>>
    /\ steps = <<>>
    /\ call = NoCall
    /\ aborted = FALSE
    /\ trace = <<>>
    /\ AstIdle

NextRender == CallShlLexToken

SpecRender == InitRender /\ [][NextRender]_vars

\* the rendering of a span: L:C for a single point, L:C1-C2 for a range
\* within a line, L1:C1-L2:C2 for a range over lines
SpanForm(l) ==
    IF StartOf(l) = EndOf(l)
    THEN Decimal(l.first_lno) \o <<":">> \o Decimal(l.first_cno)
    ELSE IF l.first_lno = l.last_lno
         THEN Decimal(l.first_lno) \o <<":">> \o Decimal(l.first_cno)
                  \o <<"-">> \o Decimal(l.last_cno)
         ELSE Decimal(l.first_lno) \o <<":">> \o Decimal(l.first_cno) \o <<"-">>
                  \o Decimal(l.last_lno) \o <<":">> \o Decimal(l.last_cno)

\* the text with each of the six escaped characters replaced by its escape
RECURSIVE EscapedText(_)
EscapedText(s) ==
    IF s = <<>> THEN <<>>
    ELSE (IF Head(s) \in Escaped THEN <<BACKSLASH, EscapeLetter[Head(s)]>> ELSE <<Head(s)>>)
             \o EscapedText(Tail(s))

(***************************************************************************)
(* C24 (as stated): a token is written as                                  *)
(* LOCATED_TOKEN("<escaped-text>", "<file-path-if-any>", <span>), the span *)
(* as L:C, L:C1-C2 or L1:C1-L2:C2.                                         *)
(***************************************************************************)
C24_AsStated ==
    op = "operator_shl"
        => ret = <<"L", "O", "C", "A", "T", "E", "D", "_", "T", "O", "K", "E", "N", "(", "\"">>
                     \o EscapedText(txt) \o <<"\"", ",", " ", "\"">>
                     \o c_str(fpath) \o <<"\"", ",", " ">>
                     \o SpanForm(lhs) \o <<")">>

(***************************************************************************)
(* C24 (amended): a token is written as LEX_TOKEN("<escaped-text>",        *)
(* followed, only when the file path is not empty, by "<file-path>", and   *)
(* then by <span>) without any blank; the span is written as L:C for a     *)
(* single point, L:C1-C2 for a range within a line and L1:C1-L2:C2 for a   *)
(* range over lines.                                                       *)
(***************************************************************************)
C24_LexTokenForm ==
    op = "operator_shl"
        => ret = <<"L", "E", "X", "_", "T", "O", "K", "E", "N", "(", "\"">>
                     \o EscapedText(txt) \o <<"\"", ",">>
                     \o (IF fpath = "" THEN <<>> ELSE <<"\"">> \o c_str(fpath) \o <<"\"", ",">>)
                     \o SpanForm(lhs) \o <<")">>

\* a token with a newline in its text, a file path and a range within a
\* line up to column 12 has been written
C24_Witness ==
    /\ op = "operator_shl"
    /\ txt = <<"a", LF>>
    /\ fpath # ""
    /\ lhs = text_loc(1, 0, 1, 12)
    /\ Len(ret) = 32
    /\ SubSeq(ret, 26, 32) = <<"1", ":", "0", "-", "1", "2", ")">>

(***************************************************************************)
(* Calls of toktext on the input buffer.                                   *)
(***************************************************************************)
\* the asserts of toktext(ts, te, ltrim, rtrim)
toktext_trimmed_pre(ts, te, ltrim, rtrim) ==
    /\ ~ts.null
    /\ ~te.null
    /\ PtrDiff(PtrAdd(te, 0 - rtrim), PtrAdd(ts, ltrim)) >= 0

\* toktext(ts, te, ltrim, rtrim) counting the characters without rtrim
toktext_trimmed_left_only(ts, te, ltrim, rtrim) ==
    SubSeq(buf, ts.off + ltrim + 1, ts.off + ltrim + (PtrDiff(te, ts) - ltrim))

\* std::string toktext(const char *ts, const char *te, const size_t ltrim,
\* const size_t rtrim): std::string(ts + ltrim, te - ts - ltrim - rtrim),
\* its asserts passed
toktext_trimmed(ts, te, ltrim, rtrim) ==
    SubSeq(buf, ts.off + ltrim + 1, ts.off + ltrim + (PtrDiff(te, ts) - ltrim - rtrim))

\* the pointers into the buffer, the end of the buffer included, and nullptr
BufPtrs == {Ptr(i) : i \in 0..Len(buf)} \cup {NullPtr}

\* the trim counts handed to toktext
ToktextTrims == 0..MaxTrim

\* the variables a call of toktext leaves alone
ToktextFrame ==
    /\ UNCHANGED <<buf, p, cur_mtext, cur_loc, fpath, heap, steps, trace>>
    /\ UNCHANGED <<lhs, rhs, third, txt, cmp>>
    /\ UNCHANGED astVars
    /\ UNCHANGED ownVars

\* toktext(ts, te) is evaluated
CallToktext ==
    /\ ~aborted
    /\ \E ts \in BufPtrs, te \in BufPtrs :
           /\ call' = Call("toktext", ts, te, NULL_PARSER, 0, 0, 0)
           /\ IF toktext_pre(ts, te)
              THEN /\ ret' = toktext(ts, te)
                   /\ UNCHANGED aborted
              ELSE /\ aborted' = TRUE
                   /\ UNCHANGED ret
    /\ op' = "toktext"
    /\ ToktextFrame

\* toktext(ts, te, ltrim, rtrim) is evaluated
CallToktextTrimmed ==
    /\ ~aborted
    /\ \E ts \in BufPtrs, te \in BufPtrs, ltrim \in ToktextTrims, rtrim \in ToktextTrims :
           /\ call' = Call("toktext_trimmed", ts, te, NULL_PARSER, 0, ltrim, rtrim)
           /\ IF toktext_trimmed_pre(ts, te, ltrim, rtrim)
              THEN /\ ret' = toktext_trimmed(ts, te, ltrim, rtrim)
                   /\ UNCHANGED aborted
              ELSE /\ aborted' = TRUE
                   /\ UNCHANGED ret
    /\ op' = "toktext"
    /\ ToktextFrame

\* toktext on every buffer.
InitToktext ==
    /\ PureIdle
    /\ buf \in StringsUpTo(MaxBuf)
    /\ p = 0
    /\ cur_mtext = <<>>
    /\ cur_loc = FIRST_TEXT_LOC
    /\ fpath = ""
    /\ heap = <<>>
    /\ steps = <<>>
    /\ call = NoCall
    /\ aborted = FALSE
    /\ trace = <<>>
    /\ AstIdle

NextToktext == CallToktext \/ CallToktextTrimmed

SpecToktext == InitToktext /\ [][NextToktext]_vars

(***************************************************************************)
(* C25: toktext(ts, te) returns exactly the characters of [ts, te), in     *)
(* order, for all ts <= te within a buffer; toktext(ts, te, ltrim, rtrim)  *)
(* returns what toktext(ts + ltrim, te - rtrim) returns whenever           *)
(* ts + ltrim <= te - rtrim.                                               *)
(***************************************************************************)
C25_Toktext ==
    /\ (call.op = "toktext" /\ PointersGiven /\ call.ts.off <= call.te.off)
          => /\ ~aborted
             /\ Len(ret) = call.te.off - call.ts.off
             /\ \A i \in 1..Len(ret) : ret[i] = buf[call.ts.off + i]
    /\ (/\ call.op = "toktext_trimmed"
        /\ PointersGiven
        /\ call.ts.off + call.ltrim <= call.te.off - call.rtrim)
          => /\ ~aborted
             /\ ret = toktext(PtrAdd(call.ts, call.ltrim), PtrAdd(call.te, 0 - call.rtrim))
             /\ Len(ret) = TrimmedLength
             /\ \A i \in 1..Len(ret) : ret[i] = buf[call.ts.off + call.ltrim + i]

\* toktext has returned the one character that is left of a lexeme of
\* three characters with a line terminator trimmed off at each end
C25_Witness ==
    /\ call.op = "toktext_trimmed"
    /\ ~aborted
    /\ call.ltrim = 1
    /\ call.rtrim = 1
    /\ RawText = <<CR, "a", LF>>
    /\ ret = <<"a">>

(***************************************************************************)
(* A program that asks nodes for their children: childs() returns the      *)
(* std::set by value, and the caller inserts into and erases from the set  *)
(* it was given.  The set the caller holds is the value of ret.            *)
(***************************************************************************)
\* the caller holds a set that childs() returned
HoldsChilds == op = "childs"

\* the variables of the tree and of the other programs that a use of the
\* caller's set leaves alone
ChildsFrame ==
    /\ UNCHANGED <<root_pc, root_n, added>>
    /\ UNCHANGED <<lhs, rhs, third, txt, cmp>>
    /\ UNCHANGED ownVars
    /\ UNCHANGED bridgeVars

\* std::set::insert on the caller's set reaching the set of every node
CopyInsertShared ==
    /\ HoldsChilds
    /\ ast_fault = "none"
    /\ \E x \in nodes :
           /\ ret' = ret \cup {x}
           /\ childs_' = [n \in Nodes |-> IF n \in nodes THEN childs_[n] \cup {x} ELSE childs_[n]]
           /\ ast_call' = AstCall("insert", NullNode, x, EMPTY_TEXT_LOC)
    /\ UNCHANGED <<nodes, parent_, loc_, ast_aborted, ast_fault>>
    /\ UNCHANGED op
    /\ ChildsFrame

\* childs() is called on a node: return childs_, by value
CallChilds ==
    /\ ~ast_aborted
    /\ ast_fault = "none"
    /\ root_pc # "loop"
    /\ \E this \in nodes :
           /\ ret' = childs(this)
           /\ ast_call' = AstCall("childs", this, NullNode, EMPTY_TEXT_LOC)
    /\ op' = "childs"
    /\ UNCHANGED <<nodes, parent_, childs_, loc_, ast_aborted, ast_fault>>
    /\ ChildsFrame

\* the caller inserts the address of a node into the set it holds
CopyInsert ==
    /\ HoldsChilds
    /\ ast_fault = "none"
    /\ \E x \in nodes :
           /\ ret' = ret \cup {x}
           /\ ast_call' = AstCall("insert", NullNode, x, EMPTY_TEXT_LOC)
    /\ UNCHANGED <<nodes, parent_, childs_, loc_, ast_aborted, ast_fault>>
    /\ UNCHANGED op
    /\ ChildsFrame

\* the caller erases the address of a node from the set it holds
CopyErase ==
    /\ HoldsChilds
    /\ ast_fault = "none"
    /\ \E x \in nodes :
           /\ ret' = ret \ {x}
           /\ ast_call' = AstCall("erase", NullNode, x, EMPTY_TEXT_LOC)
    /\ UNCHANGED <<nodes, parent_, childs_, loc_, ast_aborted, ast_fault>>
    /\ UNCHANGED op
    /\ ChildsFrame

\* The program has constructed its nodes, each one the root of its own tree,
\* and goes on to link them and to ask them for their children.
InitChilds ==
    /\ PureIdle
    /\ BridgeIdle
    /\ nodes = Nodes
    /\ parent_ = [x \in Nodes |-> x]
    /\ childs_ = [x \in Nodes |-> {}]
    /\ loc_ = [x \in Nodes |-> text_loc(1, 0, 1, 3)]
    /\ ast_call = AstCall("ast_base_type", MaxNodes, NullNode, text_loc(1, 0, 1, 3))
    /\ root_pc = "idle"
    /\ root_n = NullNode
    /\ added = 0
    /\ ast_aborted = FALSE
    /\ ast_fault = "none"
    /\ owned_ = [x \in Nodes |-> {}]
    /\ released = [x \in Nodes |-> 0]

NextChilds == DoAddChild \/ CallChilds \/ CopyInsert \/ CopyErase

SpecChilds == InitChilds /\ [][NextChilds]_vars

C27_DocumentOrder ==
    (call.op \in {"skip_token", "parse_token_trimmed", "parse_null_token"} /\ ~aborted)
        => /\ operator_lt(call.prev_loc, cur_loc)
           /\ ~operator_lt(cur_loc, call.prev_loc)
           /\ PosLe(StartOf(cur_loc), EndOf(cur_loc))

\* the second call has returned, its lexeme ending with a line terminator,
\* so that the new span ends in column 0 of the next line
C27_Witness ==
    /\ ~aborted
    /\ Len(trace) = 2
    /\ call.prev_loc # FIRST_TEXT_LOC
    /\ cur_loc.last_lno = cur_loc.first_lno + 1
    /\ cur_loc.last_cno = 0
    /\ cur_loc.first_cno > 0

(***************************************************************************)
(* mtext_loc on an input that is cut into two lexemes: the lexeme before   *)
(* the position p of the buffer and the lexeme after it.                   *)
(***************************************************************************)
\* mtext_loc is applied to the lexeme buf[0, k), then to the lexeme
\* buf[k, end) with the span of the first as the previous span
CallMtextLocCut ==
    /\ \E k \in 0..Len(buf) :
           /\ p' = k
           /\ rhs' = mtext_loc(lhs, SubSeq(buf, 1, k))
           /\ ret' = mtext_loc(mtext_loc(lhs, SubSeq(buf, 1, k)), SubSeq(buf, k + 1, Len(buf)))
    /\ op' = "mtext_loc_cut"
    /\ UNCHANGED <<lhs, third, txt, cmp>>
    /\ UNCHANGED <<buf, cur_mtext, cur_loc, fpath, heap, steps, call, aborted, trace>>
    /\ UNCHANGED astVars
    /\ UNCHANGED ownVars

\* every previous span, every input and every cut of it
InitCut ==
    /\ lhs \in TextLocs
    /\ rhs = EMPTY_TEXT_LOC
    /\ third = EMPTY_TEXT_LOC
    /\ txt = <<>>
    /\ op = "init"
    /\ cmp = NoCmp
    /\ ret = EMPTY_TEXT_LOC
    /\ buf \in StringsUpTo(MaxBuf)
    /\ p = 0
    /\ cur_mtext = <<>>
    /\ cur_loc = FIRST_TEXT_LOC
    /\ fpath = ""
    /\ heap = <<>>
    /\ steps = <<>>
    /\ call = NoCall
    /\ aborted = FALSE
    /\ trace = <<>>
    /\ AstIdle

NextCut == CallMtextLocCut

SpecCut == InitCut /\ [][NextCut]_vars

(***************************************************************************)
(* C28: the running end position does not depend on how the input is cut   *)
(* into lexemes: for every previous span p and all texts s and t, the end  *)
(* (last_lno, last_cno) of mtext_loc(mtext_loc(p, s), t) is the end of     *)
(* mtext_loc(p, s t), also when s ends with CR and t begins with LF.       *)
(***************************************************************************)
C28_CutIndependent ==
    op = "mtext_loc_cut" => EndOf(ret) = EndOf(mtext_loc(lhs, buf))

(***************************************************************************)
(* operator< on three spans, as a sort of diagnostics applies it: lhs with *)
(* rhs, rhs with third, lhs with third.                                    *)
(***************************************************************************)
\* the spans of a source text whose start is not after their end; lines are
\* counted from 1
WellFormedLocs ==
    {l \in [first_lno : 1..MaxLno, first_cno : 0..MaxCno,
            last_lno : 1..MaxLno, last_cno : 0..MaxCno] :
        \/ l.first_lno < l.last_lno
        \/ (l.first_lno = l.last_lno /\ l.first_cno <= l.last_cno)}

\* lhs < rhs, rhs < lhs, rhs < third and lhs < third are evaluated
CallLessChain ==
    /\ op' = "operator_lt chain"
    /\ cmp' = [ab |-> operator_lt(lhs, rhs), ba |-> operator_lt(rhs, lhs),
               bc |-> operator_lt(rhs, third), ac |-> operator_lt(lhs, third)]
    /\ UNCHANGED <<lhs, rhs, third, txt, ret>>
    /\ UNCHANGED bridgeVars
    /\ UNCHANGED astVars
    /\ UNCHANGED ownVars

\* every three well-formed spans
InitOrder ==
    /\ lhs \in WellFormedLocs
    /\ rhs \in WellFormedLocs
    /\ third \in WellFormedLocs
    /\ txt = <<>>
    /\ op = "init"
    /\ cmp = NoCmp
    /\ ret = EMPTY_TEXT_LOC
    /\ BridgeIdle
    /\ AstIdle

NextOrder == CallLessChain

SpecOrder == InitOrder /\ [][NextOrder]_vars

(***************************************************************************)
(* C29: operator< on text_loc is transitive on well-formed spans (the      *)
(* start of each span not after its own end): A < B and B < C imply A < C. *)
(***************************************************************************)
C29_Transitive ==
    (/\ op = "operator_lt chain"
     /\ WellFormed(lhs) /\ WellFormed(rhs) /\ WellFormed(third)
     /\ cmp.ab
     /\ cmp.bc)
        => cmp.ac

\* a chain of three spans that touch: lhs ends where rhs starts, rhs ends
\* where third starts, and rhs is wider than one position
C29_Witness ==
    /\ op = "operator_lt chain"
    /\ lhs = text_loc(1, 0, 1, 1)
    /\ rhs = text_loc(1, 1, 1, 2)
    /\ third = text_loc(1, 2, 2, 0)
    /\ cmp.ab
    /\ cmp.bc
    /\ cmp.ac

\* the length the last call hands to the assert of set_mtext_and_loc_trimmed:
\* parse_token_trimmed passes its trim counts on, parse_null_token and
\* skip_token pass 0, 0
AssertedLength ==
    IF call.op = "parse_token_trimmed"
    THEN TrimmedLength
    ELSE call.te.off - call.ts.off

\* the last call was made with arguments that one of its asserts rejects
ViolatesAssert ==
    /\ call.op \in {"parse_token_trimmed", "parse_null_token", "skip_token"}
    /\ \/ call.ts.null
       \/ call.te.null
       \/ (call.op # "skip_token" /\ call.pparser = NULL_PARSER)
       \/ AssertedLength <= 0

(***************************************************************************)
(* C30: when parse_token_trimmed, parse_null_token or skip_token is called *)
(* with arguments that violate an asserted precondition (ts, te or pparser *)
(* null, or a trimmed length that is not positive), the assertion fires    *)
(* before any mutation: the running mtext and loc keep their previous      *)
(* values, no token is allocated and the automaton is not invoked.         *)
(***************************************************************************)
C30_AssertBeforeMutation ==
    ViolatesAssert
        => /\ aborted
           /\ cur_mtext = call.prev_mtext
           /\ cur_loc = call.prev_loc
           /\ Len(heap) = call.prev_heap
           /\ Len(steps) = call.prev_steps

\* after a token was delivered, parse_token_trimmed was called with non-null
\* pointers on a lexeme that its trim counts leave nothing of
C30_Witness ==
    /\ aborted
    /\ call.op = "parse_token_trimmed"
    /\ PointersGiven
    /\ call.pparser = PPARSER
    /\ call.te.off - call.ts.off = 1
    /\ TrimmedLength = 0
    /\ Len(trace) = 1
    /\ trace[1].op = "parse_token_trimmed"
    /\ Len(heap) = 1
    /\ cur_mtext # <<>>

=============================================================================
